---- MODULE Spec2Model ----
(***************************************************************************)
(* A model of package certgen (src/unnamed/part_000), of its command line  *)
(* (src/cmd/certgen/main.go) and of the properties its specification       *)
(* states about them.                                                      *)
(*                                                                         *)
(* A string whose characters matter (the hosts list) is a sequence of      *)
(* one-character strings; every other string is a TLA+ string.  The Go     *)
(* standard library is modelled by what the calls made here do.            *)
(***************************************************************************)
EXTENDS Integers, Sequences, FiniteSets, TLC

\* ------------------------------------------------------------------------
\* Bounds of the model.

\* The concurrent generation calls of one process.
NCalls == 2
\* The secure random source yields a value of 1..MaxRand at each draw.
MaxRand == 2
\* params.ValidFrom ranges over 0..MaxTime clock ticks.
MaxTime == 1
\* params.ValidFor ranges over -MaxDur..MaxDur clock ticks.
MaxDur == 1
\* Clock ticks per second (Go: 10^9 nanoseconds), scaled down.
TicksPerSec == 2
\* The hosts strings of the SAN specification hold at most MaxEntries entries.
MaxEntries == 3

\* ------------------------------------------------------------------------
\* strings.Split and net.ParseIP, as called by genCertPair.

Comma == ","

DecDigits == <<"0", "1", "2", "3", "4", "5", "6", "7", "8", "9">>

HexDigits == DecDigits \o <<"a", "b", "c", "d", "e", "f">>

HexUpper == <<"A", "B", "C", "D", "E", "F">>

Range(s) == {s[i] : i \in 1..Len(s)}

DecDigitSet == Range(DecDigits)

HexDigitSet == Range(HexDigits) \cup Range(HexUpper)

IsDec(ch) == ch \in DecDigitSet

IsHex(ch) == ch \in HexDigitSet

DecVal(ch) == (CHOOSE i \in 1..Len(DecDigits) : DecDigits[i] = ch) - 1

HexVal(ch) ==
    IF ch \in Range(HexDigits)
    THEN (CHOOSE i \in 1..Len(HexDigits) : HexDigits[i] = ch) - 1
    ELSE (CHOOSE i \in 1..Len(HexUpper) : HexUpper[i] = ch) + 9

Drop(s, n) == SubSeq(s, n + 1, Len(s))

\* strings.Index(s, sep) for a one-character sep, 1-based; 0 when absent.
RECURSIVE IndexFrom(_, _, _)
IndexFrom(s, ch, i) ==
    IF i > Len(s) THEN 0
    ELSE IF s[i] = ch THEN i
    ELSE IndexFrom(s, ch, i + 1)

\* strings.Split(s, sep): the pieces between the separators, the empty ones
\* included; a string without separator is its own single piece.
RECURSIVE Split(_, _)
Split(s, sep) ==
    LET m == IndexFrom(s, sep, 1)
    IN  IF m = 0 THEN <<s>>
        ELSE <<SubSeq(s, 1, m - 1)>> \o Split(Drop(s, m), sep)

\* net's big: a number at least this large is refused by dtoi and xtoi.
Big == 16777215

\* net.dtoi / net.xtoi: the leading digits of s as [n, c, ok], c the count of
\* characters read.
RECURSIVE Digits(_, _, _, _)
Digits(s, base, n, c) ==
    IF c < Len(s) /\ (IF base = 10 THEN IsDec(s[c + 1]) ELSE IsHex(s[c + 1]))
    THEN LET v == IF base = 10 THEN DecVal(s[c + 1]) ELSE HexVal(s[c + 1])
             m == n * base + v
         IN  IF m >= Big THEN [n |-> Big, c |-> c + 1, ok |-> FALSE]
             ELSE Digits(s, base, m, c + 1)
    ELSE [n |-> n, c |-> c, ok |-> c > 0]

dtoi(s) == Digits(s, 10, 0, 0)

xtoi(s) == Digits(s, 16, 0, 0)

\* A net.IP is its eight 16-bit groups; the nil IP is the empty sequence.
NilIP == <<>>

IPv4(a, b, c, d) == <<0, 0, 0, 0, 0, 65535, a * 256 + b, c * 256 + d>>

\* net.parseIPv4: four decimal fields of at most 255, without leading zero,
\* separated by dots, and nothing else.
RECURSIVE parseIPv4Fields(_, _)
parseIPv4Fields(s, p) ==
    IF Len(p) = 4 THEN (IF Len(s) = 0 THEN p ELSE <<>>)
    ELSE IF Len(s) = 0 THEN <<>>
    ELSE IF Len(p) > 0 /\ s[1] # "." THEN <<>>
    ELSE LET t == IF Len(p) > 0 THEN Drop(s, 1) ELSE s
             r == dtoi(t)
         IN  IF ~r.ok \/ r.n > 255 THEN <<>>
             ELSE IF r.c > 1 /\ t[1] = "0" THEN <<>>
             ELSE parseIPv4Fields(Drop(t, r.c), Append(p, r.n))

parseIPv4(s) ==
    LET p == parseIPv4Fields(s, <<>>)
    IN  IF p = <<>> THEN NilIP ELSE IPv4(p[1], p[2], p[3], p[4])

Zeros(n) == [i \in 1..n |-> 0]

\* The end of net.parseIPv6: the whole string was read into the groups g,
\* and an ellipsis after the first e of them stands for the missing ones.
ExpandEllipsis(s, g, e) ==
    IF Len(s) # 0 THEN NilIP
    ELSE IF Len(g) < 8
    THEN IF e < 0 THEN NilIP
         ELSE SubSeq(g, 1, e) \o Zeros(8 - Len(g)) \o SubSeq(g, e + 1, Len(g))
    ELSE IF e >= 0 THEN NilIP
    ELSE g

\* The loop of net.parseIPv6: hexadecimal groups of at most 0xFFFF separated
\* by colons, at most one "::", and possibly a trailing dotted IPv4 address.
RECURSIVE parseIPv6Loop(_, _, _)
parseIPv6Loop(s, g, e) ==
    IF Len(g) >= 8 THEN ExpandEllipsis(s, g, e)
    ELSE LET r == xtoi(s)
         IN  IF ~r.ok \/ r.n > 65535 THEN NilIP
             ELSE IF r.c < Len(s) /\ s[r.c + 1] = "."
             THEN IF e < 0 /\ Len(g) # 6 THEN NilIP
                  ELSE IF Len(g) + 2 > 8 THEN NilIP
                  ELSE LET ip4 == parseIPv4(s)
                       IN  IF ip4 = NilIP THEN NilIP
                           ELSE ExpandEllipsis(<<>>, g \o SubSeq(ip4, 7, 8), e)
             ELSE LET g1 == Append(g, r.n)
                      s1 == Drop(s, r.c)
                  IN  IF Len(s1) = 0 THEN ExpandEllipsis(s1, g1, e)
                      ELSE IF s1[1] # ":" \/ Len(s1) = 1 THEN NilIP
                      ELSE LET s2 == Drop(s1, 1)
                           IN  IF s2[1] = ":"
                               THEN IF e >= 0 THEN NilIP
                                    ELSE IF Len(s2) = 1
                                    THEN ExpandEllipsis(<<>>, g1, Len(g1))
                                    ELSE parseIPv6Loop(Drop(s2, 1), g1, Len(g1))
                               ELSE parseIPv6Loop(s2, g1, e)

parseIPv6(s) ==
    IF Len(s) >= 2 /\ s[1] = ":" /\ s[2] = ":"
    THEN IF Len(s) = 2 THEN Zeros(8)
         ELSE parseIPv6Loop(Drop(s, 2), <<>>, 0)
    ELSE parseIPv6Loop(s, <<>>, -1)

\* net.ParseIP: the first dot or colon of s decides between the two forms.
RECURSIVE ParseIPFrom(_, _)
ParseIPFrom(s, i) ==
    IF i > Len(s) THEN NilIP
    ELSE IF s[i] = "." THEN parseIPv4(s)
    ELSE IF s[i] = ":" THEN parseIPv6(s)
    ELSE ParseIPFrom(s, i + 1)

ParseIP(s) == ParseIPFrom(s, 1)

\* ------------------------------------------------------------------------
\* Values.

\* The ECDSACurve constants (iota).
P224 == 0

P256 == 1

P384 == 2

P521 == 3

\* The nil error.
NoErr == "nil"

\* A nil private or public key (a nil interface value).
NilKey == [type |-> "nil"]

\* A nil byte slice that would hold DER.
NilDer == [asn1 |-> "nil"]

\* The zero value of the template, before genCertPair builds it.
NilTemplate == [nil |-> TRUE]

\* What the secure random source answers to one read: 0 when the read
\* fails, a value of 1..MaxRand otherwise.
RandOutcomes == 0..MaxRand

\* The curves of crypto/elliptic that have a name (an ASN.1 object identifier).
NamedCurves == {"P-224", "P-256", "P-384", "P-521"}

\* ECDSACurveFromString with a slip in one case: "P384" read as P256.
ECDSACurveFromStringSlip(s) ==
    CASE s = "P224" -> [curve |-> P224, err |-> NoErr]
      [] s = "P256" -> [curve |-> P256, err |-> NoErr]
      [] s = "P384" -> [curve |-> P256, err |-> NoErr]
      [] s = "P521" -> [curve |-> P521, err |-> NoErr]
      [] OTHER -> [curve |-> P224, err |-> "Invalid or Not supported ECDSA Curve"]

\* ECDSACurveFromString: the constant a name stands for, or an error (and
\* then P224, which the caller does not read).
ECDSACurveFromString(s) ==
    CASE s = "P224" -> [curve |-> P224, err |-> NoErr]
      [] s = "P256" -> [curve |-> P256, err |-> NoErr]
      [] s = "P384" -> [curve |-> P384, err |-> NoErr]
      [] s = "P521" -> [curve |-> P521, err |-> NoErr]
      [] OTHER -> [curve |-> P224, err |-> "Invalid or Not supported ECDSA Curve"]

Localhost == <<"l", "o", "c", "a", "l", "h", "o", "s", "t">>

\* NewDefaultParams: RSA 2048, valid from now for one year (here: MaxDur ticks).
NewDefaultParams(now) ==
    [Hosts |-> Localhost, ValidFrom |-> now, ValidFor |-> MaxDur, IsCA |-> FALSE,
     Rsa |-> TRUE, RsaBits |-> 2048, EcdsaCurve |-> P256]

\* notAfter with a negative ValidFor clamped to zero.
notAfterClamped(p) == p.ValidFrom + (IF p.ValidFor < 0 THEN 0 ELSE p.ValidFor)

\* CertParams.notAfter: time.Time.Add on the clock ticks.
notAfter(p) == p.ValidFrom + p.ValidFor

\* publicKey: the public half of an RSA or ECDSA private key, nil otherwise.
\* The public value of the private value d is the pair <<"pub", d>>.
publicKey(k) ==
    CASE k.type = "rsa" -> [type |-> "rsa", bits |-> k.bits, n |-> <<"pub", k.d>>]
      [] k.type = "ecdsa" -> [type |-> "ecdsa", curve |-> k.curve, q |-> <<"pub", k.d>>]
      [] OTHER -> NilKey

\* x509.MarshalPKCS1PrivateKey.
MarshalPKCS1PrivateKey(k) == [asn1 |-> "pkcs1", bits |-> k.bits, d |-> k.d]

\* x509.MarshalECPrivateKey: fails for a curve without object identifier.
MarshalECPrivateKey(k) ==
    IF k.curve \in NamedCurves
    THEN [der |-> [asn1 |-> "sec1", curve |-> k.curve, d |-> k.d], err |-> NoErr]
    ELSE [der |-> NilDer, err |-> "x509: unknown elliptic curve"]

\* pemBlockForKey with the two block types swapped.
pemBlockForKeySwapped(k) ==
    CASE k.type = "rsa" ->
           [kind |-> "block", Type |-> "EC PRIVATE KEY", Bytes |-> MarshalPKCS1PrivateKey(k)]
      [] k.type = "ecdsa" ->
           [kind |-> "block", Type |-> "RSA PRIVATE KEY", Bytes |-> MarshalECPrivateKey(k).der]
      [] OTHER -> [kind |-> "nil"]

\* pemBlockForKey: the PEM block of a private key; a nil block for a key that
\* is neither RSA nor ECDSA; os.Exit(2) when the ECDSA key does not marshal.
pemBlockForKey(k) ==
    CASE k.type = "rsa" ->
           [kind |-> "block", Type |-> "RSA PRIVATE KEY", Bytes |-> MarshalPKCS1PrivateKey(k)]
      [] k.type = "ecdsa" ->
           LET m == MarshalECPrivateKey(k)
           IN  IF m.err # NoErr THEN [kind |-> "exit", code |-> 2]
               ELSE [kind |-> "block", Type |-> "EC PRIVATE KEY", Bytes |-> m.der]
      [] OTHER -> [kind |-> "nil"]

\* The block GenerateTo* make of the certificate.
CertBlock(der) == [kind |-> "block", Type |-> "CERTIFICATE", Bytes |-> der]

\* pem.Encode: the three parts written for a block, in order.
PemEncode(b) ==
    <<[part |-> "begin", Type |-> b.Type],
      [part |-> "base64", Bytes |-> b.Bytes],
      [part |-> "end", Type |-> b.Type]>>

\* pem.Decode: the block of a complete encoding.
PemDecode(data) ==
    IF /\ Len(data) = 3
       /\ data[1].part = "begin" /\ data[2].part = "base64" /\ data[3].part = "end"
       /\ data[1].Type = data[3].Type
    THEN [kind |-> "block", Type |-> data[1].Type, Bytes |-> data[2].Bytes]
    ELSE [kind |-> "nil"]

\* rsa.GenerateKey: a length with too few primes is refused before the random
\* source is read.
RsaRejects(bits) == bits < 12

rsaGenerateKey(r, bits) ==
    IF RsaRejects(bits)
    THEN [priv |-> NilKey, err |-> "crypto/rsa: too few primes of given length to generate an RSA key"]
    ELSE IF r = 0 THEN [priv |-> NilKey, err |-> "rand: read failed"]
    ELSE [priv |-> [type |-> "rsa", bits |-> bits, d |-> r], err |-> NoErr]

\* ecdsa.GenerateKey on a named curve.
ecdsaGenerateKey(curve, r) ==
    IF r = 0 THEN [priv |-> NilKey, err |-> "rand: read failed"]
    ELSE [priv |-> [type |-> "ecdsa", curve |-> curve, d |-> r], err |-> NoErr]

\* genCertPair, key-pair selection: the switch has no default case, so a curve
\* value outside the four constants leaves the key nil and the error nil.
SelectKey(p, r) ==
    IF p.Rsa THEN rsaGenerateKey(r, p.RsaBits)
    ELSE CASE p.EcdsaCurve = P224 -> ecdsaGenerateKey("P-224", r)
           [] p.EcdsaCurve = P256 -> ecdsaGenerateKey("P-256", r)
           [] p.EcdsaCurve = P384 -> ecdsaGenerateKey("P-384", r)
           [] p.EcdsaCurve = P521 -> ecdsaGenerateKey("P-521", r)
           [] OTHER -> [priv |-> NilKey, err |-> NoErr]

\* Whether key-pair selection reads the random source.
SelectKeyReads(p) ==
    IF p.Rsa THEN ~RsaRejects(p.RsaBits)
    ELSE p.EcdsaCurve \in {P224, P256, P384, P521}

\* The key usage without the branch on IsCA.
KeyUsageNoCertSign(p) == {"KeyEncipherment", "DigitalSignature"}

\* genCertPair, the key usage of the template.
KeyUsageOf(p) ==
    {"KeyEncipherment", "DigitalSignature"} \cup (IF p.IsCA THEN {"CertSign"} ELSE {})

\* The loop over the hosts with the empty entries skipped.
RECURSIVE ClassifyHostsSkipEmpty(_, _)
ClassifyHostsSkipEmpty(hs, t) ==
    IF hs = <<>> THEN t
    ELSE LET h == Head(hs)
             ip == ParseIP(h)
         IN  ClassifyHostsSkipEmpty(Tail(hs),
                 IF ip # NilIP THEN [t EXCEPT !.IPAddresses = Append(@, ip)]
                 ELSE IF h = <<>> THEN t
                 ELSE [t EXCEPT !.DNSNames = Append(@, h)])

\* genCertPair, the loop over the hosts: an entry that parses as an IP address
\* joins IPAddresses, any other joins DNSNames.
RECURSIVE ClassifyHosts(_, _)
ClassifyHosts(hs, t) ==
    IF hs = <<>> THEN t
    ELSE LET h == Head(hs)
             ip == ParseIP(h)
         IN  ClassifyHosts(Tail(hs),
                 IF ip # NilIP THEN [t EXCEPT !.IPAddresses = Append(@, ip)]
                 ELSE [t EXCEPT !.DNSNames = Append(@, h)])

\* genCertPair, the template.
Template(p, serial) ==
    ClassifyHosts(Split(p.Hosts, Comma),
        [SerialNumber |-> serial,
         Subject |-> [Organization |-> <<"Acme Co">>],
         NotBefore |-> p.ValidFrom,
         NotAfter |-> notAfter(p),
         KeyUsage |-> KeyUsageOf(p),
         ExtKeyUsage |-> <<"ServerAuth">>,
         BasicConstraintsValid |-> TRUE,
         IsCA |-> p.IsCA,
         DNSNames |-> <<>>,
         IPAddresses |-> <<>>])

\* The validity of a certificate is encoded in whole seconds.
DerTime(t) == t - (t % TicksPerSec)

\* An RSA key of fewer than 496 bits cannot carry a PKCS #1 v1.5 signature
\* over a SHA-256 digest.
RsaTooSmallToSign(k) == k.type = "rsa" /\ k.bits < 496

\* Whether x509.CreateCertificate reads the random source with this key.
SignReads(k) ==
    /\ k.type \in {"rsa", "ecdsa"}
    /\ ~RsaTooSmallToSign(k)
    /\ (k.type = "ecdsa" => k.curve \in NamedCurves)

\* x509.CreateCertificate(rand.Reader, &template, &template, pub, priv).
CreateCertificate(t, pub, k, r) ==
    IF k.type \notin {"rsa", "ecdsa"}
    THEN [der |-> NilDer, err |-> "x509: certificate private key does not implement crypto.Signer"]
    ELSE IF k.type = "ecdsa" /\ k.curve \notin NamedCurves
    THEN [der |-> NilDer, err |-> "x509: unsupported elliptic curve"]
    ELSE IF RsaTooSmallToSign(k)
    THEN [der |-> NilDer, err |-> "crypto/rsa: message too long for RSA public key size"]
    ELSE IF r = 0 THEN [der |-> NilDer, err |-> "rand: read failed"]
    ELSE [der |-> [asn1 |-> "certificate",
                   SerialNumber |-> t.SerialNumber,
                   Issuer |-> t.Subject,
                   Subject |-> t.Subject,
                   NotBefore |-> DerTime(t.NotBefore),
                   NotAfter |-> DerTime(t.NotAfter),
                   KeyUsage |-> t.KeyUsage,
                   ExtKeyUsage |-> t.ExtKeyUsage,
                   BasicConstraintsValid |-> t.BasicConstraintsValid,
                   IsCA |-> t.BasicConstraintsValid /\ t.IsCA,
                   DNSNames |-> t.DNSNames,
                   IPAddresses |-> t.IPAddresses,
                   PublicKey |-> pub,
                   SignedBy |-> publicKey(k)],
          err |-> NoErr]

\* tls.X509KeyPair's parsePrivateKey: PKCS #1, then SEC 1.
ParsePrivateKey(der) ==
    CASE der.asn1 = "pkcs1" -> [type |-> "rsa", bits |-> der.bits, d |-> der.d]
      [] der.asn1 = "sec1" -> [type |-> "ecdsa", curve |-> der.curve, d |-> der.d]
      [] OTHER -> NilKey

\* tls.X509KeyPair(cert, key): the error of loading the pair, as the server
\* bootstrap and the test call it.
X509KeyPair(certPEM, keyPEM) ==
    LET cb == PemDecode(certPEM)
        kb == PemDecode(keyPEM)
    IN  IF cb.kind # "block" \/ cb.Type # "CERTIFICATE"
        THEN "tls: failed to find any PEM data in certificate input"
        ELSE IF kb.kind # "block"
                \/ kb.Type \notin {"PRIVATE KEY", "RSA PRIVATE KEY", "EC PRIVATE KEY"}
        THEN "tls: failed to find any PEM data in key input"
        ELSE IF cb.Bytes.asn1 # "certificate" THEN "x509: malformed certificate"
        ELSE IF ParsePrivateKey(kb.Bytes) = NilKey THEN "tls: failed to parse private key"
        ELSE IF cb.Bytes.PublicKey # publicKey(ParsePrivateKey(kb.Bytes))
        THEN "tls: private key does not match public key"
        ELSE NoErr

\* ------------------------------------------------------------------------
\* The state.

Calls == 1..NCalls

VARIABLES
    pc,            \* per call: where the call stands
    adapter,       \* per call: "memory", "file" or "writer"
    caller,        \* per call: "lib" or "main" (the command line)
    arg,           \* per call: the CertParams value the caller passed
    cp,            \* per call: the CertParams value behind the pointer, now
    priv,          \* per call: genCertPair's priv
    serialNumber,  \* per call: genCertPair's serialNumber
    template,      \* per call: genCertPair's template
    genRes,        \* per call: what genCertPair returns (priv, derBytes, err)
    ret,           \* per call: what the Generate* function returned
    out,           \* per call: the two files or writers of the call
    draws,         \* per call: what the call has drawn from the random source
    randReads,     \* the reads the shared random source has served
    flags,         \* the command line's flags
    exit           \* how the process ended, if it has

vars == <<pc, adapter, caller, arg, cp, priv, serialNumber, template, genRes,
          ret, out, draws, randReads, flags, exit>>

Adapters == {"memory", "file", "writer"}

NilParams ==
    [Hosts |-> <<>>, ValidFrom |-> 0, ValidFor |-> 0, IsCA |-> FALSE,
     Rsa |-> FALSE, RsaBits |-> 0, EcdsaCurve |-> P224]

NilGenRes == [priv |-> NilKey, derBytes |-> NilDer, err |-> NoErr]

NilRet == [cert |-> <<>>, key |-> <<>>, err |-> NoErr]

NilOut == [certCreated |-> FALSE, cert |-> <<>>, keyCreated |-> FALSE, key |-> <<>>]

NilFlags ==
    [host |-> <<>>, ecdsaCurve |-> "", rsaBits |-> 0, startDate |-> "",
     duration |-> 0, ca |-> FALSE]

Running == [how |-> "running", code |-> 0, msg |-> ""]

Init ==
    /\ pc = [c \in Calls |-> "idle"]
    /\ adapter = [c \in Calls |-> "memory"]
    /\ caller = [c \in Calls |-> "lib"]
    /\ arg = [c \in Calls |-> NilParams]
    /\ cp = [c \in Calls |-> NilParams]
    /\ priv = [c \in Calls |-> NilKey]
    /\ serialNumber = [c \in Calls |-> 0]
    /\ template = [c \in Calls |-> NilTemplate]
    /\ genRes = [c \in Calls |-> NilGenRes]
    /\ ret = [c \in Calls |-> NilRet]
    /\ out = [c \in Calls |-> NilOut]
    /\ draws = [c \in Calls |-> <<>>]
    /\ randReads = 0
    /\ flags = NilFlags
    /\ exit = Running

\* ------------------------------------------------------------------------
\* The library's entry points: GenerateToMemory, GenerateToFile and
\* GenerateToWriter are called with a CertParams value.

Call(c, a, p) ==
    /\ exit = Running
    /\ pc[c] = "idle"
    /\ pc' = [pc EXCEPT ![c] = "keygen"]
    /\ adapter' = [adapter EXCEPT ![c] = a]
    /\ arg' = [arg EXCEPT ![c] = p]
    /\ cp' = [cp EXCEPT ![c] = p]
    /\ UNCHANGED <<caller, priv, serialNumber, template, genRes, ret, out,
                   draws, randReads, flags, exit>>

\* A serial number taken from the state of the shared random source instead
\* of the call's own draw.
SerialOfShared(r) == randReads

\* rand.Int(rand.Reader, 1 << 128) answered r: uniform in [0, limit), the
\* limit being MaxRand here.
SerialOf(r) == r - 1

\* One read of the shared random source by call c, answered r.
Read(c, reads, r) ==
    IF reads
    THEN /\ draws' = [draws EXCEPT ![c] = Append(@, r)]
         /\ randReads' = randReads + 1
    ELSE UNCHANGED <<draws, randReads>>

\* genCertPair returns (nil, nil, err).
GenFail(c, msg) ==
    /\ genRes' = [genRes EXCEPT ![c] = [priv |-> NilKey, derBytes |-> NilDer, err |-> msg]]
    /\ pc' = [pc EXCEPT ![c] = "gen_ret"]

\* genCertPair, key-pair selection.
GenKey(c) ==
    /\ exit = Running
    /\ pc[c] = "keygen"
    /\ \E r \in (IF SelectKeyReads(cp[c]) THEN RandOutcomes ELSE {0}) :
          LET k == SelectKey(cp[c], r)
          IN  /\ Read(c, SelectKeyReads(cp[c]), r)
              /\ priv' = [priv EXCEPT ![c] = k.priv]
              /\ IF k.err # NoErr
                 THEN GenFail(c, "failed to generate private key")
                 ELSE /\ pc' = [pc EXCEPT ![c] = "serial"]
                      /\ UNCHANGED genRes
    /\ UNCHANGED <<adapter, caller, arg, cp, serialNumber, template, ret, out,
                   flags, exit>>

\* genCertPair, the serial number.
GenSerial(c) ==
    /\ exit = Running
    /\ pc[c] = "serial"
    /\ \E r \in RandOutcomes :
          /\ Read(c, TRUE, r)
          /\ IF r = 0
             THEN /\ GenFail(c, "failed to generate serial number")
                  /\ UNCHANGED serialNumber
             ELSE /\ serialNumber' = [serialNumber EXCEPT ![c] = SerialOf(r)]
                  /\ pc' = [pc EXCEPT ![c] = "create"]
                  /\ UNCHANGED genRes
    /\ UNCHANGED <<adapter, caller, arg, cp, priv, template, ret, out, flags, exit>>

\* genCertPair, the template and its self-signature.
CreateCert(c) ==
    /\ exit = Running
    /\ pc[c] = "create"
    /\ \E t \in {Template(cp[c], serialNumber[c])} :
           /\ template' = [template EXCEPT ![c] = t]
           /\ \E r \in (IF SignReads(priv[c]) THEN RandOutcomes ELSE {0}) :
                 LET res == CreateCertificate(t, publicKey(priv[c]), priv[c], r)
                 IN  /\ Read(c, SignReads(priv[c]), r)
                     /\ IF res.err # NoErr
                        THEN GenFail(c, "Failed to create certificate")
                        ELSE /\ genRes' = [genRes EXCEPT ![c] =
                                    [priv |-> priv[c], derBytes |-> res.der, err |-> NoErr]]
                             /\ pc' = [pc EXCEPT ![c] = "gen_ret"]
    /\ UNCHANGED <<adapter, caller, arg, cp, priv, serialNumber, ret, out, flags, exit>>

\* A Generate* function returns r: the locals of the call are gone.
Return(c, r) ==
    /\ pc' = [pc EXCEPT ![c] = "returned"]
    /\ ret' = [ret EXCEPT ![c] = r]
    /\ priv' = [priv EXCEPT ![c] = NilKey]
    /\ serialNumber' = [serialNumber EXCEPT ![c] = 0]
    /\ template' = [template EXCEPT ![c] = NilTemplate]
    /\ genRes' = [genRes EXCEPT ![c] = NilGenRes]
    /\ UNCHANGED exit

\* The process ends inside the call: os.Exit(2) in pemBlockForKey, or the
\* panic of pem.Encode on the nil block.
Die(c, how) ==
    /\ pc' = [pc EXCEPT ![c] = "dead"]
    /\ exit' = [how |-> how, code |-> 2, msg |-> ""]
    /\ UNCHANGED <<ret, priv, serialNumber, template, genRes>>

HowDies(b) == IF b.kind = "exit" THEN "os.Exit" ELSE "panic"

Prefix(s, n) == SubSeq(s, 1, n)

\* GenerateToMemory, after genCertPair.
MemoryFinish(c) ==
    /\ exit = Running
    /\ pc[c] = "gen_ret" /\ adapter[c] = "memory"
    /\ LET g == genRes[c]
           b == pemBlockForKey(g.priv)
       IN  IF g.err # NoErr THEN Return(c, [cert |-> <<>>, key |-> <<>>, err |-> g.err])
           ELSE IF b.kind # "block" THEN Die(c, HowDies(b))
           ELSE Return(c, [cert |-> PemEncode(CertBlock(g.derBytes)),
                           key |-> PemEncode(b), err |-> NoErr])
    /\ UNCHANGED <<adapter, caller, arg, cp, out, draws, randReads, flags>>

\* GenerateToFile, after genCertPair.  The environment decides whether each
\* file opens and how many parts of each encoding reach it; the result of
\* pem.Encode is not looked at.
FileFinish(c) ==
    /\ exit = Running
    /\ pc[c] = "gen_ret" /\ adapter[c] = "file"
    /\ LET g == genRes[c]
           b == pemBlockForKey(g.priv)
           certPEM == PemEncode(CertBlock(g.derBytes))
       IN  IF g.err # NoErr
           THEN Return(c, [NilRet EXCEPT !.err = g.err]) /\ UNCHANGED out
           ELSE \E createOk \in BOOLEAN, n \in 0..Len(certPEM) :
                  IF ~createOk
                  THEN /\ n = 0
                       /\ Return(c, [NilRet EXCEPT !.err = "failed to open certFile for writing"])
                       /\ UNCHANGED out
                  ELSE \E openOk \in BOOLEAN :
                         LET o1 == [out[c] EXCEPT !.certCreated = TRUE,
                                                  !.cert = Prefix(certPEM, n)]
                         IN  IF ~openOk
                             THEN /\ Return(c, [NilRet EXCEPT !.err = "failed to open keyFile for writing"])
                                  /\ out' = [out EXCEPT ![c] = o1]
                             ELSE IF b.kind # "block"
                             THEN /\ Die(c, HowDies(b))
                                  /\ out' = [out EXCEPT ![c] = [o1 EXCEPT !.keyCreated = TRUE]]
                             ELSE \E m \in 0..Len(PemEncode(b)) :
                                    /\ Return(c, NilRet)
                                    /\ out' = [out EXCEPT ![c] =
                                          [o1 EXCEPT !.keyCreated = TRUE,
                                                     !.key = Prefix(PemEncode(b), m)]]
    /\ UNCHANGED <<adapter, caller, arg, cp, draws, randReads, flags>>

\* GenerateToWriter, after genCertPair.  The environment decides how many
\* parts of each encoding its writer takes; the result of pem.Encode is not
\* looked at.
WriterFinish(c) ==
    /\ exit = Running
    /\ pc[c] = "gen_ret" /\ adapter[c] = "writer"
    /\ LET g == genRes[c]
           b == pemBlockForKey(g.priv)
           certPEM == PemEncode(CertBlock(g.derBytes))
       IN  IF g.err # NoErr
           THEN Return(c, [NilRet EXCEPT !.err = g.err]) /\ UNCHANGED out
           ELSE \E n \in 0..Len(certPEM) :
                  LET o1 == [out[c] EXCEPT !.cert = Prefix(certPEM, n)]
                  IN  IF b.kind # "block"
                      THEN Die(c, HowDies(b)) /\ out' = [out EXCEPT ![c] = o1]
                      ELSE \E m \in 0..Len(PemEncode(b)) :
                             /\ Return(c, NilRet)
                             /\ out' = [out EXCEPT ![c] =
                                   [o1 EXCEPT !.key = Prefix(PemEncode(b), m)]]
    /\ UNCHANGED <<adapter, caller, arg, cp, draws, randReads, flags>>

\* ------------------------------------------------------------------------
\* The command line (cmd/certgen).

\* time.Parse("Jan 2 15:04:05 2006", s) on the start dates the model enters:
\* a date in the layout is a whole number of seconds.
TimeParse(s) ==
    CASE s = "Jan 1 00:00:00 1970" -> [t |-> 0, ok |-> TRUE]
      [] s = "Jan 1 00:00:01 1970" -> [t |-> TicksPerSec, ok |-> TRUE]
      [] OTHER -> [t |-> 0, ok |-> FALSE]

\* main: the CertParams value made of the flags, the clock reading now.
MainParams(f, now) ==
    LET e == ECDSACurveFromString(f.ecdsaCurve)
    IN  [Hosts |-> f.host, ValidFrom |-> now, ValidFor |-> f.duration, IsCA |-> f.ca,
         Rsa |-> e.err # NoErr,
         RsaBits |-> IF e.err # NoErr THEN f.rsaBits ELSE 0,
         EcdsaCurve |-> IF e.err # NoErr THEN 0 ELSE e.curve]

\* main, up to its call of GenerateToFile.
MainStart(f) ==
    /\ exit = Running
    /\ pc[1] = "idle"
    /\ flags' = f
    /\ IF Len(f.host) = 0
       THEN /\ exit' = [how |-> "log.Fatalf", code |-> 1,
                        msg |-> "Missing required --host parameter"]
            /\ pc' = [pc EXCEPT ![1] = "dead"]
            /\ UNCHANGED <<adapter, caller, arg, cp>>
       ELSE IF f.startDate # "" /\ ~TimeParse(f.startDate).ok
       THEN /\ exit' = [how |-> "os.Exit", code |-> 1,
                        msg |-> "Failed to parse creation date"]
            /\ pc' = [pc EXCEPT ![1] = "dead"]
            /\ UNCHANGED <<adapter, caller, arg, cp>>
       ELSE \E now \in (IF f.startDate = "" THEN 0..MaxTime
                        ELSE {TimeParse(f.startDate).t}) :
              /\ arg' = [arg EXCEPT ![1] = MainParams(f, now)]
              /\ cp' = [cp EXCEPT ![1] = MainParams(f, now)]
              /\ adapter' = [adapter EXCEPT ![1] = "file"]
              /\ caller' = [caller EXCEPT ![1] = "main"]
              /\ pc' = [pc EXCEPT ![1] = "keygen"]
              /\ UNCHANGED exit
    /\ UNCHANGED <<priv, serialNumber, template, genRes, ret, out, draws, randReads>>

\* main, after GenerateToFile: an error is printed, and main returns.
MainFinish(c) ==
    /\ exit = Running
    /\ pc[c] = "returned" /\ caller[c] = "main"
    /\ exit' = [how |-> "return", code |-> 0,
                msg |-> IF ret[c].err # NoErr THEN "Couldn't generate certs" ELSE ""]
    /\ UNCHANGED <<pc, adapter, caller, arg, cp, priv, serialNumber, template,
                   genRes, ret, out, draws, randReads, flags>>

\* ------------------------------------------------------------------------
\* The inputs and the specifications.

HostInputs == {Localhost, <<"h", ",", ":", ":", "1">>}

RsaBitsInputs == {0, 256, 2048, 3072, 4096}

CurveInputs == P224..(P521 + 1)

\* Every RSA length and every curve value, with two values of the field the
\* selected algorithm does not read.
ParamInputs ==
    [Hosts : HostInputs, ValidFrom : 0..MaxTime, ValidFor : (-MaxDur)..MaxDur,
     IsCA : BOOLEAN, Rsa : {TRUE}, RsaBits : RsaBitsInputs, EcdsaCurve : {P256, P521 + 1}]
    \cup
    [Hosts : HostInputs, ValidFrom : 0..MaxTime, ValidFor : (-MaxDur)..MaxDur,
     IsCA : BOOLEAN, Rsa : {FALSE}, RsaBits : {0, 2048}, EcdsaCurve : CurveInputs]

\* One call of the library, through any of the three functions.
Next ==
    \/ pc[1] = "idle" /\ \E a \in Adapters, p \in ParamInputs : Call(1, a, p)
    \/ GenKey(1)
    \/ GenSerial(1)
    \/ CreateCert(1)
    \/ MemoryFinish(1)
    \/ FileFinish(1)
    \/ WriterFinish(1)

Spec == Init /\ [][Next]_vars

\* Concurrent calls of GenerateToMemory.
\* The callers pass different values: the default parameters, or an ECDSA
\* certificate authority for two hosts.
ConcParams(c) ==
    IF c % 2 = 1 THEN NewDefaultParams(0)
    ELSE [NewDefaultParams(MaxTime) EXCEPT !.Rsa = FALSE, !.IsCA = TRUE,
                                          !.Hosts = <<"h", ",", ":", ":", "1">>]

NextConc ==
    \E c \in Calls :
        \/ Call(c, "memory", ConcParams(c))
        \/ GenKey(c)
        \/ GenSerial(c)
        \/ CreateCert(c)
        \/ MemoryFinish(c)

SpecConc == Init /\ [][NextConc]_vars

\* The command line.
FlagInputs ==
    [host : {<<>>, Localhost},
     ecdsaCurve : {"", "P224", "P256", "P384", "P521", "P999"},
     rsaBits : {0, 2048},
     startDate : {"", "Jan 1 00:00:00 1970", "Jan 1 00:00:01 1970", "1970-01-01"},
     duration : (-MaxDur)..MaxDur,
     ca : BOOLEAN]

NextCli ==
    \/ pc[1] = "idle" /\ \E f \in FlagInputs : MainStart(f)
    \/ GenKey(1)
    \/ GenSerial(1)
    \/ CreateCert(1)
    \/ FileFinish(1)
    \/ MainFinish(1)

SpecCli == Init /\ [][NextCli]_vars

\* The subject alternative names: hosts strings of up to MaxEntries entries.
ExampleCom == <<"e", "x", "a", "m", "p", "l", "e", ".", "c", "o", "m">>

SanEntries ==
    {<<>>, ExampleCom,
     <<"1", "0", ".", "0", ".", "0", ".", "1">>,
     <<":", ":", "1">>}

\* An address written in full and a malformed one, tried alone and in pairs.
SanOddEntries ==
    {<<"0", ":", "0", ":", "0", ":", "0", ":", "0", ":", "0", ":", "0", ":", "1">>,
     <<"1", ".", "2", ".", "3">>}

RECURSIVE Join(_, _)
Join(es, sep) ==
    IF Len(es) = 1 THEN es[1] ELSE es[1] \o <<sep>> \o Join(Tail(es), sep)

SanHostInputs ==
    {Join(es, Comma) : es \in UNION {[1..n -> SanEntries] : n \in 1..MaxEntries}}
    \cup {Join(es, Comma) :
             es \in UNION {[1..n -> SanEntries \cup SanOddEntries] : n \in {1, 2}}}

NextSan ==
    \/ pc[1] = "idle" /\ \E h \in SanHostInputs :
          Call(1, "memory", [NewDefaultParams(0) EXCEPT !.Hosts = h])
    \/ GenKey(1)
    \/ GenSerial(1)
    \/ CreateCert(1)
    \/ MemoryFinish(1)

SpecSan == Init /\ [][NextSan]_vars

\* PEM encoding applied to any private key: the call stands where genCertPair
\* has returned the key with some certificate.
KeyInputs ==
    {[type |-> "rsa", bits |-> b, d |-> d] : b \in {2048, 4096}, d \in 1..MaxRand}
    \cup {[type |-> "ecdsa", curve |-> cv, d |-> d] :
             cv \in NamedCurves \cup {"custom"}, d \in 1..MaxRand}
    \cup {[type |-> "ed25519", d |-> d] : d \in 1..MaxRand}
    \cup {NilKey}

DerInputs ==
    {CreateCertificate(Template(NewDefaultParams(t), s),
                       publicKey([type |-> "rsa", bits |-> 2048, d |-> 1]),
                       [type |-> "rsa", bits |-> 2048, d |-> 1], 1).der :
        t \in 0..MaxTime, s \in 0..(MaxRand - 1)}

InitPem ==
    /\ pc \in [Calls -> {"idle", "gen_ret"}]
    /\ pc[1] = "gen_ret" /\ \A c \in Calls \ {1} : pc[c] = "idle"
    /\ adapter \in [Calls -> Adapters]
    /\ \A c \in Calls \ {1} : adapter[c] = "memory"
    /\ caller = [c \in Calls |-> "lib"]
    /\ arg = [c \in Calls |-> NilParams]
    /\ cp = [c \in Calls |-> NilParams]
    /\ priv = [c \in Calls |-> NilKey]
    /\ serialNumber = [c \in Calls |-> 0]
    /\ template = [c \in Calls |-> NilTemplate]
    /\ \E k \in KeyInputs, d \in DerInputs :
          genRes = [c \in Calls |-> IF c = 1 THEN [priv |-> k, derBytes |-> d, err |-> NoErr]
                                    ELSE NilGenRes]
    /\ ret = [c \in Calls |-> NilRet]
    /\ out = [c \in Calls |-> NilOut]
    /\ draws = [c \in Calls |-> <<>>]
    /\ randReads = 0
    /\ flags = NilFlags
    /\ exit = Running

NextPem ==
    \/ MemoryFinish(1)
    \/ FileFinish(1)
    \/ WriterFinish(1)

SpecPem == InitPem /\ [][NextPem]_vars

\* ------------------------------------------------------------------------
\* The properties.

CurveConstants == {P224, P256, P384, P521}

\* The key parameters the specification calls supported.
Supported(p) ==
    IF p.Rsa THEN p.RsaBits \in {2048, 3072, 4096} ELSE p.EcdsaCurve \in CurveConstants

\* Every read of the random source by call c was served.
RandServed(c) == \A i \in 1..Len(draws[c]) : draws[c][i] # 0

\* The certificate and the key a finished call has delivered.
Delivered(c) ==
    IF adapter[c] = "memory" THEN [cert |-> ret[c].cert, key |-> ret[c].key]
    ELSE [cert |-> out[c].cert, key |-> out[c].key]

\* C1: with supported key parameters (and a random source that serves its
\* reads) GenerateToMemory returns no error and a pair that loads as a TLS key
\* pair: a "CERTIFICATE" block, a key block typed after the algorithm, the
\* key of the selected algorithm, and in the certificate the public key of
\* that very key, which also signed it.
C1_SupportedPairLoads ==
    \A c \in Calls :
        (pc[c] = "returned" /\ adapter[c] = "memory" /\ Supported(arg[c]) /\ RandServed(c))
        => /\ ret[c].err = NoErr
           /\ X509KeyPair(ret[c].cert, ret[c].key) = NoErr
           /\ PemDecode(ret[c].cert).Type = "CERTIFICATE"
           /\ PemDecode(ret[c].key).Type =
                 (IF arg[c].Rsa THEN "RSA PRIVATE KEY" ELSE "EC PRIVATE KEY")
           /\ LET crt == PemDecode(ret[c].cert).Bytes
                  key == ParsePrivateKey(PemDecode(ret[c].key).Bytes)
              IN  /\ key.type = (IF arg[c].Rsa THEN "rsa" ELSE "ecdsa")
                  /\ arg[c].Rsa => key.bits = arg[c].RsaBits
                  /\ crt.PublicKey.type = key.type
                  /\ crt.PublicKey = publicKey(key)
                  /\ crt.SignedBy = publicKey(key)

C1_Witness ==
    /\ pc[1] = "returned" /\ adapter[1] = "memory"
    /\ ~arg[1].Rsa /\ arg[1].EcdsaCurve = P224
    /\ ret[1].err = NoErr
    /\ X509KeyPair(ret[1].cert, ret[1].key) = NoErr
    /\ PemDecode(ret[1].key).Type = "EC PRIVATE KEY"

\* C2: generation is all-or-nothing for every adapter: a finished call either
\* returned success and delivered the complete certificate and the complete
\* key, or returned an error and delivered nothing to either output.
C2_AllOrNothing ==
    \A c \in Calls :
        pc[c] = "returned"
        => IF ret[c].err = NoErr
           THEN X509KeyPair(Delivered(c).cert, Delivered(c).key) = NoErr
           ELSE Delivered(c).cert = <<>> /\ Delivered(c).key = <<>>

\* The entries of a hosts string, counted from its commas.
Commas(s) == {i \in 1..Len(s) : s[i] = Comma}

Cuts(s) == {0, Len(s) + 1} \cup Commas(s)

Cut(s, k) == CHOOSE x \in Cuts(s) : Cardinality({y \in Cuts(s) : y < x}) = k

NumEntries(s) == Cardinality(Commas(s)) + 1

Entry(s, k) == SubSeq(s, Cut(s, k - 1) + 1, Cut(s, k) - 1)

IsIPEntry(s, k) == ParseIP(Entry(s, k)) # NilIP

\* How many entries up to the k-th are of the k-th entry's class.
RankInClass(s, k) ==
    Cardinality({j \in 1..k : IsIPEntry(s, j) = IsIPEntry(s, k)})

SansOf(s, t) ==
    /\ Len(t.IPAddresses) + Len(t.DNSNames) = NumEntries(s)
    /\ \A k \in 1..NumEntries(s) :
          IF IsIPEntry(s, k)
          THEN /\ RankInClass(s, k) <= Len(t.IPAddresses)
               /\ t.IPAddresses[RankInClass(s, k)] = ParseIP(Entry(s, k))
          ELSE /\ RankInClass(s, k) <= Len(t.DNSNames)
               /\ t.DNSNames[RankInClass(s, k)] = Entry(s, k)

ExampleHosts ==
    ExampleCom \o <<",", "1", "0", ".", "0", ".", "0", ".", "1", ",", ":", ":", "1">>

ExampleIPs == <<IPv4(10, 0, 0, 1), <<0, 0, 0, 0, 0, 0, 0, 1>>>>

\* C3: the template's SANs are the comma-separated entries of the hosts
\* string, each classified on its own: an entry that parses as an IP address
\* is in IPAddresses, any other (the empty one included) in DNSNames, each
\* list in input order, nothing dropped or merged; the certificate carries
\* the same lists.  "example.com,10.0.0.1,::1" gives one DNS name and two IPs.
C3_SansMirrorHosts ==
    \A c \in Calls :
        template[c] # NilTemplate
        => /\ SansOf(arg[c].Hosts, template[c])
           /\ genRes[c].err = NoErr /\ pc[c] = "gen_ret" => SansOf(arg[c].Hosts, genRes[c].derBytes)
           /\ arg[c].Hosts = ExampleHosts
              => /\ template[c].DNSNames = <<ExampleCom>>
                 /\ template[c].IPAddresses = ExampleIPs

C3_Witness ==
    /\ pc[1] = "gen_ret" /\ genRes[1].err = NoErr
    /\ arg[1].Hosts = ExampleHosts
    /\ genRes[1].derBytes.DNSNames = <<ExampleCom>>
    /\ genRes[1].derBytes.IPAddresses = ExampleIPs

CAExtensions(p, t) ==
    /\ t.BasicConstraintsValid
    /\ {"KeyEncipherment", "DigitalSignature"} \subseteq t.KeyUsage
    /\ t.ExtKeyUsage = <<"ServerAuth">>
    /\ t.IsCA = p.IsCA
    /\ ("CertSign" \in t.KeyUsage) = p.IsCA

\* C4: every template, and every certificate made of one, has valid basic
\* constraints, the key-encipherment and digital-signature usages, exactly
\* the server-authentication extended usage, and the CA flag and the
\* certificate-signing usage exactly when params.IsCA is set.
C4_CAExtensions ==
    \A c \in Calls :
        template[c] # NilTemplate
        => /\ CAExtensions(arg[c], template[c])
           /\ genRes[c].err = NoErr /\ pc[c] = "gen_ret" => CAExtensions(arg[c], genRes[c].derBytes)

C4_Witness ==
    /\ pc[1] = "gen_ret" /\ genRes[1].err = NoErr
    /\ arg[1].IsCA
    /\ genRes[1].derBytes.IsCA
    /\ "CertSign" \in genRes[1].derBytes.KeyUsage

ValidCurveNames == {"P224", "P256", "P384", "P521"}

ConstantNamed(s) ==
    CASE s = "P224" -> 0 [] s = "P256" -> 1 [] s = "P384" -> 2 [] s = "P521" -> 3

EllipticNamed(s) ==
    CASE s = "P224" -> "P-224" [] s = "P256" -> "P-256"
      [] s = "P384" -> "P-384" [] s = "P521" -> "P-521"

\* C5: on the command line a curve name outside P224, P256, P384, P521 (the
\* empty one included) never ends the process: the parameters select RSA with
\* the configured length and the key generated is an RSA key of that length;
\* each of the four names selects ECDSA with exactly its curve, whatever the
\* RSA length flag says.
C5_CurveNameFallsBackToRsa ==
    /\ exit.code = 1
       => \/ flags.host = <<>>
          \/ flags.startDate # "" /\ ~TimeParse(flags.startDate).ok
    /\ caller[1] = "main"
       => IF flags.ecdsaCurve \notin ValidCurveNames
          THEN /\ cp[1].Rsa
               /\ cp[1].RsaBits = flags.rsaBits
               /\ priv[1] # NilKey
                  => priv[1].type = "rsa" /\ priv[1].bits = flags.rsaBits
          ELSE /\ ~cp[1].Rsa
               /\ cp[1].EcdsaCurve = ConstantNamed(flags.ecdsaCurve)
               /\ priv[1] # NilKey
                  => /\ priv[1].type = "ecdsa"
                     /\ priv[1].curve = EllipticNamed(flags.ecdsaCurve)

C5_Witness ==
    /\ caller[1] = "main"
    /\ flags.ecdsaCurve = "P999"
    /\ priv[1].type = "rsa" /\ priv[1].bits = flags.rsaBits
    /\ exit = Running

\* C6: the template's NotBefore is params.ValidFrom and its NotAfter is
\* params.ValidFrom + params.ValidFor, exactly; the certificate carries both
\* to the precision of its encoding (whole seconds).  Nothing is clamped or
\* rejected: with supported key parameters and a served random source
\* genCertPair succeeds whatever ValidFor is, and a ValidFor of zero or less
\* gives a NotAfter that is not after NotBefore.
C6_ValidityWindow ==
    \A c \in Calls :
        template[c] # NilTemplate
        => /\ template[c].NotBefore = arg[c].ValidFrom
           /\ template[c].NotAfter = arg[c].ValidFrom + arg[c].ValidFor
           /\ arg[c].ValidFor <= 0 => template[c].NotAfter <= template[c].NotBefore
           /\ pc[c] = "gen_ret" /\ Supported(arg[c]) /\ RandServed(c) => genRes[c].err = NoErr
           /\ pc[c] = "gen_ret" /\ genRes[c].err = NoErr
              => LET d == genRes[c].derBytes
                 IN  /\ d.NotBefore % TicksPerSec = 0
                     /\ d.NotBefore <= arg[c].ValidFrom
                     /\ arg[c].ValidFrom < d.NotBefore + TicksPerSec
                     /\ d.NotAfter % TicksPerSec = 0
                     /\ d.NotAfter <= arg[c].ValidFrom + arg[c].ValidFor
                     /\ arg[c].ValidFrom + arg[c].ValidFor < d.NotAfter + TicksPerSec
                     /\ arg[c].ValidFor <= 0 => d.NotAfter <= d.NotBefore

C6_Witness ==
    /\ pc[1] = "gen_ret" /\ genRes[1].err = NoErr
    /\ arg[1].ValidFor < 0
    /\ template[1].NotAfter < template[1].NotBefore
    /\ genRes[1].derBytes.NotAfter < genRes[1].derBytes.NotBefore

\* Key parameters that are invalid: an RSA length the library refuses, or a
\* curve value that is none of the four constants.
InvalidKeyParams(p) ==
    IF p.Rsa THEN RsaRejects(p.RsaBits) ELSE p.EcdsaCurve \notin CurveConstants

\* C7: with invalid key parameters genCertPair fails in its key-pair
\* selection: the call goes from there straight to its return with the
\* key-generation error, and neither draws a serial number nor builds or
\* signs a template.
C7_InvalidKeyFailsInSelection ==
    \A c \in Calls :
        (InvalidKeyParams(arg[c]) /\ pc[c] \notin {"idle", "keygen"})
        => /\ pc[c] \in {"gen_ret", "returned"}
           /\ draws[c] = <<>>
           /\ template[c] = NilTemplate
           /\ pc[c] = "gen_ret" => genRes[c].err = "failed to generate private key"
           /\ pc[c] = "returned" => ret[c].err = "failed to generate private key"

C9_CliExitsNonZeroOnFailure ==
    (exit # Running /\ exit.code = 0)
    => /\ pc[1] = "returned" /\ ret[1].err = NoErr
       /\ out[1].certCreated /\ out[1].keyCreated

\* GenerateToMemory run alone, as a function of its parameters p and of the
\* answers d of the random source to its reads, in order.
MemoryAlone(p, d) ==
    LET kr == SelectKeyReads(p)
        k == SelectKey(p, IF kr THEN d[1] ELSE 0)
        d2 == IF kr THEN Tail(d) ELSE d
    IN  IF k.err # NoErr THEN [NilRet EXCEPT !.err = "failed to generate private key"]
        ELSE IF d2[1] = 0 THEN [NilRet EXCEPT !.err = "failed to generate serial number"]
        ELSE LET t == Template(p, d2[1] - 1)
                 res == CreateCertificate(t, publicKey(k.priv), k.priv,
                                          IF SignReads(k.priv) THEN d2[2] ELSE 0)
             IN  IF res.err # NoErr
                 THEN [NilRet EXCEPT !.err = "Failed to create certificate"]
                 ELSE [cert |-> PemEncode(CertBlock(res.der)),
                       key |-> PemEncode(pemBlockForKey(k.priv)),
                       err |-> NoErr]

\* C10: concurrent calls are independent and stateless: a call never changes
\* the CertParams value it was given, its serial number is its own draw, its
\* result is what it returns when run alone on its own parameters and its
\* own draws, whatever the other calls did in between, and it keeps no key,
\* serial number, template or certificate after it has returned.
C10_CallsAreIndependent ==
    \A c \in Calls :
        /\ cp[c] = arg[c]
        /\ pc[c] = "create" => serialNumber[c] = draws[c][Len(draws[c])] - 1
        /\ pc[c] = "returned"
           => /\ ret[c] = MemoryAlone(arg[c], draws[c])
              /\ priv[c] = NilKey /\ template[c] = NilTemplate
              /\ genRes[c] = NilGenRes /\ serialNumber[c] = 0

C10_Witness ==
    /\ pc[1] = "returned" /\ ret[1].err = NoErr
    /\ pc[2] = "create"
    /\ draws[1][2] # draws[2][2]
    /\ randReads = 5

====
